---- MODULE Spec2Model ----
(***************************************************************************)
(* State-machine model of the transport SDK clients:                       *)
(*   - WsClient        (src/src/node/ws.ts)                                *)
(*   - HttpClient      (src/src/node/http.ts)                              *)
(*   - IpcParentClient (src/src/node/ipc-parent.ts) and IpcChildClient     *)
(*     (src/unnamed/part_010), which share their code line for line except *)
(*     for the parent's child-exit handler.                                *)
(* One action is one turn of the JavaScript event loop: the synchronous    *)
(* code of a call or callback together with the promise continuations      *)
(* (microtasks) it releases.  Timers and I/O callbacks are separate        *)
(* actions that fire in any order.                                         *)
(***************************************************************************)
EXTENDS Integers, Sequences, FiniteSets, TLC

\* ---- bounds --------------------------------------------------------------
MaxSockets == 2
MaxQueries == 3
MaxAnswers == 2
MaxBatches == 1
MaxEvents == 3
MaxHttpEvents == 1
MaxPipelined == 2
MaxPipelinedEvents == 2
MaxAttempts == 6
MaxSleepers == 2
MaxTicks == 5

\* ---- program constants ---------------------------------------------------
TRANSPORT_OVERHEAD_WIRE == 256
maxBytes == 1024
base == 200
cap == 3000

SockIds == 1..MaxSockets
QueryIds == 1..MaxQueries
BatchIds == 1..MaxPipelined
NoSock == 0
NoQuery == 0
NoCorr == 0

Kinds == {"ws", "ipc"}
Types == {"A", "B"}
Handlers == {"h1", "h2"}
NoHandler == "none"

\* utf8 lengths of the serialized query envelope the caller may produce
WireLens == {maxBytes - TRANSPORT_OVERHEAD_WIRE, maxBytes - TRANSPORT_OVERHEAD_WIRE + 1}

DataVals == {"d1", "d2"}
ErrTexts == {"e1"}
NoVal == "-"

\* QueryResponse payloads: absent, ok not a boolean, ok = false (err text
\* present or absent), ok = true with data
Payloads ==
  {[present |-> FALSE, ok |-> "none", data |-> NoVal, err |-> NoVal],
   [present |-> TRUE, ok |-> "other", data |-> NoVal, err |-> NoVal]}
  \cup {[present |-> TRUE, ok |-> "false", data |-> NoVal, err |-> e] : e \in ErrTexts \cup {NoVal}}
  \cup {[present |-> TRUE, ok |-> "true", data |-> d, err |-> NoVal] : d \in DataVals}

\* values of the pongPassword option: not given, the empty string, a password
NoPw == "<undefined>"
NoTok == "<no token>"
Tokens == {NoTok, "", "t"}             \* the token option: absent, empty, set
HeaderToks == {NoTok, "t", "x"}        \* the x-transport-token header of a request
Entries == {"node", "express"}         \* nodeHttpHandler, expressRouter()
BodyLens ==
  {0, maxBytes - TRANSPORT_OVERHEAD_WIRE, maxBytes - TRANSPORT_OVERHEAD_WIRE + 1, maxBytes + 1}
\* what the request body is: not JSON, JSON without a string action, an envelope
\* with another action, a batch envelope without an events array, a batch
Bodies == {"invalid_json", "no_action", "other_action", "no_events", "batch"}
\* POST requests; a ping carries no body, and an empty body has no content
HttpReqs ==
  {r \in [entry : Entries, path : {"hook", "ping"}, tok : HeaderToks,
          len : BodyLens, body : Bodies] :
     /\ r.path = "ping" => r.len = 0
     /\ r.len = 0 => r.body = "no_action"}
NoResp == [code |-> 0, body |-> "none"]
Passwords == {NoPw, "", "pw"}

\* correlationId of an inbound Ping: absent or present
PingCorrs == {NoCorr, 1}

VARIABLES
  kind,          \* transport of the client under study, fixed at construction
  ws,            \* WsClient.ws: current socket, NoSock when null
  ownsSocket,    \* WsClient.ownsSocket
  reconnecting,  \* WsClient.reconnecting
  connAttempts,  \* WsClient.connAttempts
  readyState,    \* per socket: UNUSED, CONNECTING, OPEN, CLOSING, ABORTING, CLOSED
  openWait,      \* per socket: who awaits 'open'/'error' in openOnce: none, connect, loop
  sleepers,      \* reconnect loops sleeping in delay()
  delayMs,       \* the delay the reconnect loop computed last (0: none yet)
  queryInFlight, \* WsClient.queryInFlight: id of the query whose waiter is stored
  queries,       \* per query() call: promise states, timers, send progress
  ipcListening,  \* IPC client: its 'message' listener is attached
  childAlive,    \* IPC client: the peer process is connected
  subs,          \* subs: eventType -> handler (NoHandler when absent)
  batches,       \* per inbound OutboxStreamBatch: tasks, timer, ACK
  pongPassword,  \* the pongPassword option, fixed at construction
  lastPing,      \* the last Ping the client received
  lastPong,      \* the reply to it that the client handed to the channel
  handshaken,    \* some Ping has been answered with a Pong
  thrown,        \* what the last subscribe/unsubscribe/close call threw
  token,         \* HttpClient: the token option, fixed at construction
  samePaths,     \* HttpClient: the webhook path and the ping path are one path
  httpResp,      \* HttpClient: the last reply written before any dispatch
  hb             \* WsClientTransport: the heartbeat loop and its controller

connVars == <<ws, ownsSocket, reconnecting, connAttempts, readyState, openWait, sleepers, delayMs>>
ipcVars == <<ipcListening, childAlive>>
pingVars == <<lastPing, lastPong, handshaken>>
httpVars == <<token, samePaths, httpResp>>
vars == <<kind, ws, ownsSocket, reconnecting, connAttempts, readyState, openWait, sleepers, delayMs,
          queryInFlight, queries, ipcListening, childAlive, subs, batches,
          pongPassword, lastPing, lastPong, handshaken, thrown,
          token, samePaths, httpResp, hb>>

Pending == [st |-> "pending", val |-> NoVal]
Resolved(v) == [st |-> "resolved", val |-> v]
Rejected(e) == [st |-> "rejected", val |-> e]
Unused == [st |-> "unused", val |-> NoVal]

\* ids of a QueryRequest: whether it has a requestId, and its correlationId
NoFrame == [requestId |-> FALSE, correlationId |-> NoQuery]

NewQuery ==
  [res |-> Unused,       \* the promise returned by query()
   waiter |-> Unused,    \* the promise whose resolve/reject handles are stored
   calls |-> 0,          \* invocations of the stored resolve/reject handles
   entry |-> FALSE,      \* IPC: pendingQueries has an entry for the correlationId
   sendP |-> "none",     \* promise of sendTextBeforeDeadline
   cbDue |-> FALSE,      \* ws.send callback not yet invoked
   sendTimer |-> FALSE,  \* timer of sendTextBeforeDeadline armed
   dlTimer |-> FALSE,    \* timer of withDeadline armed
   sock |-> NoSock,      \* socket the request frame was handed to
   len |-> 0,            \* utf8 length of the request handed to the channel
   errored |-> FALSE,    \* an 'error' envelope for this request was received
   frame |-> NoFrame,    \* IPC: the ids of the QueryRequest handed to the channel
   loop |-> "none",      \* Electron renderer: the wait loop of query(): none,
                         \* polling, awaiting (in return await p), ended
   answers |-> 0]        \* responses the server produced for this request

NoTask ==
  [state |-> "none",       \* none, scheduled, running, done, failed
   idxs |-> <<>>,          \* perTypeIdx entry: indices of the type's events
   k |-> 0,                \* loop variable of the task
   handler |-> NoHandler,  \* handler captured when the task was created
   started |-> <<>>,       \* event indices the handler was invoked for, in order
   invoked |-> <<>>,       \* the handler function called at each invocation
   ended |-> 0]            \* invocations that returned

NoAck ==
  [sock |-> NoSock, ok |-> FALSE, okIndices |-> <<>>, corr |-> NoCorr, fresh |-> FALSE,
   style |-> "none"]

NewBatch ==
  [st |-> "unused",        \* processing, resolved, failed, timedout, ignored
   style |-> "dot",        \* action name of the message: outbox.stream.batch (dot)
                           \* or outboxStreamBatch (camel)
   events |-> <<>>,        \* eventType of each wire event, in arrival order
   sock |-> NoSock,        \* socket the batch arrived on (ws)
   corr |-> NoCorr,        \* correlationId of the batch message (ipc)
   tasks |-> [t \in Types |-> NoTask],
   threw |-> FALSE,        \* some handler invocation threw or rejected
   expired |-> FALSE,      \* the timer of withTimeout fired
   sendable |-> FALSE,     \* connection usable when processing resolved
   acks |-> 0,             \* ACK frames emitted for this batch
   reply |-> 0,            \* HttpClient: status of the reply to the webhook request
   len |-> 0,              \* HttpClient: body length of the webhook request
   ack |-> NoAck]          \* the ACK frame

\* values of the heartbeatTimeout option, in ms
HbTimeouts == {400, 600, 1000, 3000}

\* the heartbeat loop before startHeartbeatLoop()
NoHb ==
  [state |-> "off",       \* off, sleeping (in setTimeout), ended
   timeout |-> 0,         \* hbTimeout
   interval |-> 0,        \* opts.interval
   maxDelay |-> 0,        \* maxDelay
   delay |-> 0,           \* delay: the time the loop sleeps
   destroyed |-> FALSE,   \* destroyed
   didReset |-> FALSE,    \* the last tick called reset()
   ticks |-> 0,           \* ticks started
   pings |-> 0]           \* Pings emitted

NoPing == [seen |-> FALSE, sock |-> NoSock, corr |-> NoCorr]
NoPong == [sent |-> FALSE, sock |-> NoSock, corr |-> NoCorr, fresh |-> FALSE, password |-> NoPw]

\* the state after construction of a client of a kind in K with a pongPassword
\* in P, a token in T and coinciding paths or not as S says
InitWith(K, P, T, S) ==
  /\ kind \in K
  /\ pongPassword \in P
  /\ token \in T
  /\ samePaths \in S
  /\ httpResp = NoResp
  /\ hb = NoHb
  /\ lastPing = NoPing
  /\ lastPong = NoPong
  /\ handshaken = FALSE
  /\ thrown = "none"
  /\ ws = NoSock
  /\ ownsSocket = FALSE
  /\ reconnecting = FALSE
  /\ connAttempts = 0
  /\ readyState = [s \in SockIds |-> "UNUSED"]
  /\ openWait = [s \in SockIds |-> "none"]
  /\ sleepers = 0
  /\ delayMs = 0
  /\ queryInFlight = NoQuery
  /\ queries = [q \in QueryIds |-> NewQuery]
  /\ ipcListening = TRUE
  /\ childAlive = TRUE
  /\ subs = [t \in Types |-> NoHandler]
  /\ batches = [b \in BatchIds |-> NewBatch]

InitOf(K, P) == InitWith(K, P, {NoTok}, {FALSE})

Init == InitOf(Kinds, {NoPw})

\* ---- WsClient: socket lifecycle ------------------------------------------
Conn ==
  [ws |-> ws, ownsSocket |-> ownsSocket, reconnecting |-> reconnecting,
   connAttempts |-> connAttempts, readyState |-> readyState, openWait |-> openWait,
   sleepers |-> sleepers, delayMs |-> delayMs, overflow |-> FALSE]

SetConn(c) ==
  /\ c.overflow = FALSE
  /\ ws' = c.ws
  /\ ownsSocket' = c.ownsSocket
  /\ reconnecting' = c.reconnecting
  /\ connAttempts' = c.connAttempts
  /\ readyState' = c.readyState
  /\ openWait' = c.openWait
  /\ sleepers' = c.sleepers
  /\ delayMs' = c.delayMs

FreeSocks(c) == {s \in SockIds : c.readyState[s] = "UNUSED"}
NewSock(c) == CHOOSE s \in FreeSocks(c) : \A t \in FreeSocks(c) : s <= t

\* openOnce(), up to its await: create the socket, take it as current, bind it
OpenOnce(c, who) ==
  IF FreeSocks(c) = {} THEN [c EXCEPT !.overflow = TRUE]
  ELSE LET s == NewSock(c) IN
       [c EXCEPT !.ws = s, !.ownsSocket = TRUE,
                 !.readyState[s] = "CONNECTING", !.openWait[s] = who]

\* startReconnectLoop(): guard, then the loop's first iteration up to its await
StartReconnectLoop(c) ==
  IF c.reconnecting THEN c
  ELSE OpenOnce([c EXCEPT !.reconnecting = TRUE], "loop")

\* faulty variant of OnSocketLost: the listeners do not test ownsSocket
OnSocketLostAlways(c) == StartReconnectLoop(c)

\* the 'close' and 'error' listeners installed by bindSocket
OnSocketLost(c) == IF c.ownsSocket THEN StartReconnectLoop(c) ELSE c

\* connect(): first openOnce
WsConnect ==
  /\ kind = "ws"
  /\ SetConn(OpenOnce(Conn, "connect"))
  /\ UNCHANGED <<kind, hb, httpVars, pongPassword, pingVars, thrown, queryInFlight, queries, ipcVars, subs, batches>>

\* attach(sock): take a socket owned by the host
WsAttach ==
  /\ kind = "ws"
  /\ FreeSocks(Conn) # {}
  /\ \E st \in {"CONNECTING", "OPEN"} :
       LET s == NewSock(Conn) IN
       SetConn([Conn EXCEPT !.ws = s, !.ownsSocket = FALSE, !.readyState[s] = st])
  /\ UNCHANGED <<kind, hb, httpVars, pongPassword, pingVars, thrown, queryInFlight, queries, ipcVars, subs, batches>>

\* close(): ws.close() starts the closing handshake (or aborts a connecting socket)
CloseSocket(c, s) ==
  IF s = NoSock THEN c
  ELSE IF c.readyState[s] = "OPEN" THEN [c EXCEPT !.readyState[s] = "CLOSING"]
  ELSE IF c.readyState[s] = "CONNECTING" THEN [c EXCEPT !.readyState[s] = "ABORTING"]
  ELSE c

\* the body of close() on the connection fields
WsCloseConn(c) ==
  [CloseSocket([c EXCEPT !.reconnecting = FALSE], c.ws) EXCEPT !.ws = NoSock]

\* faulty variant of CloseThrown: this.ws.close() called without a socket
CloseThrownUnguarded(c) == IF c.ws = NoSock THEN "TypeError" ELSE "none"

\* what close() throws: this.ws?.close() is optional-chained inside try/catch
CloseThrown(c) == "none"

WsClose ==
  /\ kind = "ws"
  /\ SetConn(WsCloseConn(Conn))
  /\ thrown' = CloseThrown(Conn)
  /\ UNCHANGED <<kind, hb, httpVars, pongPassword, pingVars, queryInFlight, queries, ipcVars, subs, batches>>

\* computeBackoffMs(attempt): Math.min(cap, base * Math.pow(2, Math.max(0, attempt - 1)))
computeBackoffMs(attempt) ==
  LET ms == base * 2 ^ (IF attempt - 1 > 0 THEN attempt - 1 ELSE 0)
  IN IF cap < ms THEN cap ELSE ms

\* 'open' of a socket: resolves the openOnce that awaits it
SockOpen(s) ==
  /\ kind = "ws"
  /\ readyState[s] = "CONNECTING"
  /\ LET c1 == [Conn EXCEPT !.readyState[s] = "OPEN", !.openWait[s] = "none"] IN
     SetConn(IF openWait[s] = "loop"
             THEN [c1 EXCEPT !.connAttempts = 0, !.reconnecting = FALSE]
             ELSE c1)
  /\ UNCHANGED <<kind, hb, httpVars, pongPassword, pingVars, thrown, queryInFlight, queries, ipcVars, subs, batches>>

\* a connecting (or aborted) socket fails: 'error' then 'close', then the
\* rejection of the openOnce that awaits it
SockFail(s) ==
  /\ kind = "ws"
  /\ readyState[s] \in {"CONNECTING", "ABORTING"}
  /\ openWait[s] = "loop" => connAttempts < MaxAttempts /\ sleepers < MaxSleepers
  /\ LET c1 == [Conn EXCEPT !.readyState[s] = "CLOSED", !.openWait[s] = "none"]
         c2 == OnSocketLost(c1)      \* 'error' listener
         c3 == OnSocketLost(c2)      \* 'close' listener
     IN SetConn(CASE openWait[s] = "connect" -> StartReconnectLoop(c3)
                  [] openWait[s] = "loop" ->
                       [c3 EXCEPT !.connAttempts = @ + 1, !.sleepers = @ + 1,
                                  !.delayMs = computeBackoffMs(c3.connAttempts + 1)]
                  [] OTHER -> c3)
  /\ UNCHANGED <<kind, hb, httpVars, pongPassword, pingVars, thrown, queryInFlight, queries, ipcVars, subs, batches>>

\* an open or closing socket is gone: 'close'
SockClose(s) ==
  /\ kind = "ws"
  /\ readyState[s] \in {"OPEN", "CLOSING"}
  /\ SetConn(OnSocketLost([Conn EXCEPT !.readyState[s] = "CLOSED"]))
  /\ UNCHANGED <<kind, hb, httpVars, pongPassword, pingVars, thrown, queryInFlight, queries, ipcVars, subs, batches>>

\* delay() of a reconnect loop ends: next iteration of while (this.reconnecting)
LoopWake ==
  /\ kind = "ws"
  /\ sleepers > 0
  /\ LET c1 == [Conn EXCEPT !.sleepers = @ - 1] IN
     SetConn(IF c1.reconnecting THEN OpenOnce(c1, "loop") ELSE c1)
  /\ UNCHANGED <<kind, hb, httpVars, pongPassword, pingVars, thrown, queryInFlight, queries, ipcVars, subs, batches>>

\* a closed socket that is no longer the current one is garbage: the client
\* holds no reference to it and it emits nothing more
SockForget(s) ==
  /\ kind = "ws"
  /\ readyState[s] = "CLOSED" /\ ws # s
  /\ SetConn([Conn EXCEPT !.readyState[s] = "UNUSED"])
  /\ UNCHANGED <<kind, hb, httpVars, pongPassword, pingVars, thrown, queryInFlight, queries, ipcVars, subs, batches>>

Lifecycle ==
  \/ WsConnect
  \/ WsAttach
  \/ WsClose
  \/ \E s \in SockIds : SockOpen(s)
  \/ \E s \in SockIds : SockFail(s)
  \/ \E s \in SockIds : SockClose(s)
  \/ LoopWake

\* ---- WsClient: query -------------------------------------------------------
UnusedQueries == {q \in QueryIds : queries[q].res.st = "unused"}
NextQuery == CHOOSE q \in UnusedQueries : \A r \in UnusedQueries : q <= r

\* Promise.race of withDeadline plus the clearTimeout that follows it: the
\* first settlement of the query's promise wins and disarms the deadline timer
SettleQuery(W, q, out) ==
  IF W[q].res.st = "pending"
  THEN [W EXCEPT ![q].res = out, ![q].dlTimer = FALSE]
  ELSE W

\* a resolve/reject handle of the waiter is invoked; query() returns the waiter
\* once the send has completed, so from then on the waiter settles the query
SettleWaiter(W, q, out) ==
  LET W1 == [W EXCEPT ![q].calls = @ + 1,
                      ![q].waiter = IF @.st = "pending" THEN out ELSE @]
  IN IF W1[q].sendP = "resolved" THEN SettleQuery(W1, q, W1[q].waiter) ELSE W1

\* the checks of query() before anything is created or sent
QueryAdmission(len) ==
  IF ws = NoSock \/ readyState[ws] # "OPEN" THEN "not_connected"
  ELSE IF queryInFlight # NoQuery THEN "in_flight"
  ELSE IF len + TRANSPORT_OVERHEAD_WIRE > maxBytes THEN "too_large"
  ELSE "ok"

\* query(name, dto, timeoutMs) up to the await of the send
WsQuery(len) ==
  /\ kind = "ws"
  /\ UnusedQueries # {}
  /\ LET q == NextQuery
         adm == QueryAdmission(len)
     IN IF adm # "ok"
        THEN /\ queries' = [queries EXCEPT ![q].res = Rejected(adm)]
             /\ UNCHANGED queryInFlight
        ELSE /\ queries' = [queries EXCEPT ![q] = [NewQuery EXCEPT
                         !.res = Pending, !.waiter = Pending, !.sendP = "pending",
                         !.cbDue = TRUE, !.sendTimer = TRUE, !.dlTimer = TRUE,
                         !.sock = ws, !.len = len]]
             /\ queryInFlight' = q
  /\ UNCHANGED <<kind, hb, httpVars, pongPassword, pingVars, thrown, connVars, ipcVars, subs, batches>>

\* the catch block of query(): clear the slot and rethrow
SendFailed(W, q, e) ==
  SettleQuery([W EXCEPT ![q].sendP = "rejected"], q, Rejected(e))

\* callback of ws.send(text, cb)
WsSendCallback(q, err) ==
  /\ kind = "ws"
  /\ queries[q].cbDue
  /\ err \/ readyState[queries[q].sock] # "CLOSED"
  /\ LET W1 == [queries EXCEPT ![q].cbDue = FALSE, ![q].sendTimer = FALSE] IN
     IF queries[q].sendP # "pending"
     THEN queries' = W1 /\ UNCHANGED queryInFlight
     ELSE IF err
     THEN queries' = SendFailed(W1, q, "send_error") /\ queryInFlight' = NoQuery
     ELSE /\ LET W2 == [W1 EXCEPT ![q].sendP = "resolved"] IN
             queries' = IF W2[q].waiter.st = "pending" THEN W2
                   ELSE SettleQuery(W2, q, W2[q].waiter)
          /\ UNCHANGED queryInFlight
  /\ UNCHANGED <<kind, hb, httpVars, pongPassword, pingVars, thrown, connVars, ipcVars, subs, batches>>

\* timer of sendTextBeforeDeadline fires
WsSendTimeout(q) ==
  /\ kind = "ws"
  /\ queries[q].sendTimer
  /\ LET W1 == [queries EXCEPT ![q].sendTimer = FALSE] IN
     IF queries[q].sendP # "pending"
     THEN queries' = W1 /\ UNCHANGED queryInFlight
     ELSE queries' = SendFailed(W1, q, "send_timeout") /\ queryInFlight' = NoQuery
  /\ UNCHANGED <<kind, hb, httpVars, pongPassword, pingVars, thrown, connVars, ipcVars, subs, batches>>

\* timer of withDeadline fires
WsDeadline(q) ==
  /\ kind = "ws"
  /\ queries[q].dlTimer
  /\ LET inflight == queryInFlight
         W1 == SettleQuery(queries, q, Rejected("query_timeout"))
         W2 == [W1 EXCEPT ![q].dlTimer = FALSE]
     IN queries' = IF inflight = NoQuery THEN W2
              ELSE SettleWaiter(W2, inflight, Rejected("response_timeout"))
  /\ queryInFlight' = NoQuery
  /\ UNCHANGED <<kind, hb, httpVars, pongPassword, pingVars, thrown, connVars, ipcVars, subs, batches>>

\* faulty variant of Decide: anything but ok = false counts as success
DecideLenient(pl) ==
  IF pl.present /\ pl.ok = "false"
  THEN Rejected(IF pl.err = NoVal THEN "query failed" ELSE pl.err)
  ELSE Resolved(pl.data)

\* how a QueryResponse payload settles the query it is matched to
Decide(pl) ==
  IF ~pl.present \/ pl.ok \notin {"true", "false"} THEN Rejected("invalid_response")
  ELSE IF pl.ok = "false" THEN Rejected(IF pl.err = NoVal THEN "query failed" ELSE pl.err)
  ELSE Resolved(pl.data)

\* onMessage, case QueryResponse; the frame is the server's answer to request a
WsOnQueryResponse(a, pl) ==
  /\ kind = "ws"
  /\ queries[a].sendP = "resolved"
  /\ queries[a].answers < MaxAnswers
  /\ readyState[queries[a].sock] \in {"OPEN", "CLOSING"}
  /\ LET inflight == queryInFlight
         W1 == [queries EXCEPT ![a].answers = @ + 1]
     IN queries' = IF inflight = NoQuery THEN W1
              ELSE SettleWaiter(W1, inflight, Decide(pl))
  /\ queryInFlight' = NoQuery
  /\ UNCHANGED <<kind, hb, httpVars, pongPassword, pingVars, thrown, connVars, ipcVars, subs, batches>>

WsQueries ==
  \/ \E len \in WireLens : WsQuery(len)
  \/ \E q \in QueryIds, err \in BOOLEAN : WsSendCallback(q, err)
  \/ \E q \in QueryIds : WsSendTimeout(q)
  \/ \E q \in QueryIds : WsDeadline(q)
  \/ \E a \in QueryIds, pl \in Payloads : WsOnQueryResponse(a, pl)

\* ---- IPC clients: query ---------------------------------------------------
\* resolve/reject of the promise created in query(); query() returns that promise
IpcSettle(Q, q, out) ==
  [Q EXCEPT ![q].calls = @ + 1,
            ![q].waiter = IF @.st = "pending" THEN out ELSE @,
            ![q].res = IF @.st = "pending" THEN out ELSE @]

\* faulty variant of IpcTake: the entry is deleted, its timer is left armed
IpcTakeKeepTimer(Q, q) == [Q EXCEPT ![q].entry = FALSE]

\* pendingQueries.delete(id) together with clearTimeout(pending.timer)
IpcTake(Q, q) == [Q EXCEPT ![q].entry = FALSE, ![q].dlTimer = FALSE]

\* the ids of the request message built by query() for its q-th call: both are
\* fresh UUIDs, the correlationId is the key of the pendingQueries entry
IpcQueryFrame(q) == [requestId |-> TRUE, correlationId |-> q]

\* query(): register the entry and its timer, then child.send / process.send
IpcQuery(len, sendThrows) ==
  /\ kind = "ipc"
  /\ UnusedQueries # {}
  /\ LET q == NextQuery
         Q1 == [queries EXCEPT ![q] = [NewQuery EXCEPT
                  !.res = Pending, !.waiter = Pending,
                  !.entry = TRUE, !.dlTimer = TRUE]]
     IN queries' = IF sendThrows
                   THEN [IpcTake(Q1, q) EXCEPT ![q].res = Rejected("send_error")]
                   ELSE [Q1 EXCEPT ![q].sendP = IF childAlive THEN "resolved" ELSE "rejected",
                                   ![q].len = len, ![q].frame = IpcQueryFrame(q)]
  /\ UNCHANGED <<kind, hb, httpVars, pongPassword, pingVars, thrown, connVars, queryInFlight, ipcVars, subs, batches>>

\* the timer callback installed by query()
IpcDeadline(q) ==
  /\ kind = "ipc"
  /\ queries[q].dlTimer
  /\ queries' = IpcSettle([queries EXCEPT ![q].entry = FALSE, ![q].dlTimer = FALSE],
                          q, Rejected("query_timeout"))
  /\ UNCHANGED <<kind, hb, httpVars, pongPassword, pingVars, thrown, connVars, queryInFlight, ipcVars, subs, batches>>

\* faulty variant of IpcLookup: the oldest entry, whatever the id
IpcLookupOldest(Q, id) ==
  IF \A q \in QueryIds : ~Q[q].entry THEN NoQuery
  ELSE CHOOSE q \in QueryIds : Q[q].entry /\ \A p \in QueryIds : Q[p].entry => q <= p

\* pendingQueries.get(id): the query registered under id, NoQuery when none is
IpcLookup(Q, id) == IF Q[id].entry THEN id ELSE NoQuery

\* onChildMessage / onProcessMessage, case QueryResponse, with correlationId id
\* (NoQuery: the message carries none)
IpcOnQueryResponse(id, pl) ==
  /\ kind = "ipc"
  /\ ipcListening /\ childAlive
  /\ id # NoQuery =>
       /\ queries[id].sendP = "resolved"
       /\ queries[id].answers < MaxAnswers
  /\ queries' =
       IF id = NoQuery THEN queries
       ELSE LET Q1 == [queries EXCEPT ![id].answers = @ + 1]
                hit == IpcLookup(Q1, id)
            IN IF hit = NoQuery THEN Q1
               ELSE IpcSettle(IpcTake(Q1, hit), hit, Decide(pl))
  /\ UNCHANGED <<kind, hb, httpVars, pongPassword, pingVars, thrown, connVars, queryInFlight, ipcVars, subs, batches>>

\* close(), and the body of the parent's child 'exit' listener: detach the
\* listener, clear every timer, drop every entry and every subscription
IpcReleased(Q) == [q \in QueryIds |-> [Q[q] EXCEPT !.entry = FALSE, !.dlTimer = FALSE]]

IpcState == [ipcListening |-> ipcListening, queries |-> queries, subs |-> subs]

IpcClosed(S) ==
  [ipcListening |-> FALSE,
   queries |-> IpcReleased(S.queries),
   subs |-> [t \in Types |-> NoHandler]]

IpcRelease ==
  /\ kind = "ipc"
  /\ LET S == IpcClosed(IpcState) IN
     /\ ipcListening' = S.ipcListening
     /\ queries' = S.queries
     /\ subs' = S.subs

IpcClose ==
  /\ IpcRelease
  /\ thrown' = "none"
  /\ UNCHANGED <<kind, hb, httpVars, pongPassword, pingVars, connVars, queryInFlight, childAlive, batches>>

IpcExit ==
  /\ childAlive
  /\ childAlive' = FALSE
  /\ IpcRelease
  /\ UNCHANGED <<kind, hb, httpVars, pongPassword, pingVars, thrown, connVars, queryInFlight, batches>>

IpcQueries ==
  \/ \E len \in WireLens, t \in BOOLEAN : IpcQuery(len, t)
  \/ \E q \in QueryIds : IpcDeadline(q)
  \/ \E id \in QueryIds \cup {NoQuery}, pl \in Payloads : IpcOnQueryResponse(id, pl)
  \/ IpcClose
  \/ IpcExit

\* ---- subscriptions (WsClient and the IPC clients) ---------------------------
\* faulty variant of Sub: a second handler replaces the first
SubOverwrite(S, t, h) == [S EXCEPT ![t] = h]

\* subscribe(eventType, handler) on the subscription map
Sub(S, t, h) == IF S[t] # NoHandler THEN S ELSE [S EXCEPT ![t] = h]

\* faulty variant of Unsub: the entry is deleted whoever registered it
UnsubAny(S, t, h) == [S EXCEPT ![t] = NoHandler]

\* the function returned by subscribe(eventType, handler) on the subscription map
Unsub(S, t, h) == IF S[t] = h THEN [S EXCEPT ![t] = NoHandler] ELSE S

\* getSubscriptionCount(eventType)
SubscriptionCount(S, t) == IF S[t] # NoHandler THEN 1 ELSE 0

\* subscribe(eventType, handler): throws on a duplicate, else registers
Subscribe(t, h) ==
  /\ kind \in {"ws", "ipc", "http"}
  /\ subs' = Sub(subs, t, h)
  /\ thrown' = IF subs[t] # NoHandler THEN "duplicate" ELSE "none"
  /\ UNCHANGED <<kind, hb, httpVars, pongPassword, pingVars, connVars, queryInFlight, queries, ipcVars, batches>>

\* the function returned by subscribe(eventType, handler)
Unsubscribe(t, h) ==
  /\ subs' = Unsub(subs, t, h)
  /\ thrown' = "none"
  /\ UNCHANGED <<kind, hb, httpVars, pongPassword, pingVars, connVars, queryInFlight, queries, ipcVars, batches>>

\* ---- batch processing (WsClient and the IPC clients) -----------------------
UnusedBatches == {b \in BatchIds : batches[b].st = "unused"}
NextBatch == CHOOSE b \in UnusedBatches : \A r \in UnusedBatches : b <= r
\* fewer than n batches have arrived so far
FewerThan(n) == UnusedBatches # {} /\ NextBatch <= n

EventLists == UNION {[1..n -> Types] : n \in 0..MaxEvents}

\* the routing loop of dispatchBatch: indices (from 0) of the events of type t,
\* kept only when t has a subscriber
RECURSIVE PerTypeIdx(_, _, _, _)
RECURSIVE PerTypeIdxReversed(_, _, _, _)

\* faulty variant of PerTypeIdx: the indices of a type in reverse arrival order
PerTypeIdxReversed(wires, S, t, i) ==
  IF i >= Len(wires) THEN <<>>
  ELSE PerTypeIdxReversed(wires, S, t, i + 1)
       \o (IF wires[i + 1] = t /\ S[t] # NoHandler THEN <<i>> ELSE <<>>)

PerTypeIdx(wires, S, t, i) ==
  IF i >= Len(wires) THEN <<>>
  ELSE (IF wires[i + 1] = t /\ S[t] # NoHandler THEN <<i>> ELSE <<>>)
       \o PerTypeIdx(wires, S, t, i + 1)

\* faulty variant of TaskMayStart: the task of type B awaits the task of type A
TaskMayStartSerial(T, t) == t = "A" \/ T["A"].state \in {"none", "done", "failed"}

\* the task loop of dispatchBatch creates one async task per type and does not
\* await it before creating the next: every task may run at once
TaskMayStart(T, t) == TRUE

\* faulty variant of HandlerFor: the subscription map is read at each invocation
HandlerForLive(T, t) == subs[t]

\* the function a task of type t calls: const handler = this.subs.get(type)!,
\* read once when the task is created
HandlerFor(T, t) == T.handler

\* a scheduled handler invocation begins: handler(evt) for wires[idxs[k]]
StartReady(T) ==
  [t \in Types |->
     IF T[t].state = "scheduled" /\ TaskMayStart(T, t)
     THEN [T[t] EXCEPT !.state = "running", !.started = Append(@, T[t].idxs[T[t].k + 1]),
                       !.invoked = Append(@, HandlerFor(T[t], t))]
     ELSE T[t]]

\* faulty variant of AllTasksDone: a type without a task is waited for as well
AllTasksDoneEveryType(T) == \A t \in Types : T[t].state = "done"

\* Promise.all(tasks) has resolved
AllTasksDone(T) == \A t \in Types : T[t].state \in {"none", "done"}

\* the connection takes a frame: this.ws?.send on an open socket, child.send /
\* process.send on a connected channel
CanSend ==
  IF kind = "ws" THEN ws # NoSock /\ readyState[ws] = "OPEN"
  ELSE IF kind = "ipc" THEN childAlive
  ELSE TRUE                      \* HttpClient: the ACK is the body of the reply

\* faulty variant of OkIndices: indices counted from 1
OkIndicesFromOne(wires) == [i \in 1..Len(wires) |-> i]

\* p.events.map((_e, i) => i)
OkIndices(wires) == [i \in 1..Len(wires) |-> i - 1]

\* faulty variant of AckFrame: the ACK always gets a correlationId of its own
AckFrameFreshIds(B) ==
  [sock |-> IF kind = "ws" THEN ws ELSE NoSock,
   ok |-> TRUE,
   okIndices |-> OkIndices(B.events),
   corr |-> NoCorr,
   fresh |-> kind = "ipc",
   style |-> "dot"]

\* the ACK message built after processBatchWithTimeout resolved
AckFrame(B) ==
  [sock |-> IF kind = "ws" THEN ws ELSE NoSock,
   ok |-> TRUE,
   okIndices |-> OkIndices(B.events),
   corr |-> IF kind = "ws" THEN NoCorr ELSE B.corr,
   fresh |-> kind = "ipc" /\ B.corr = NoCorr,     \* msg.correlationId || randomUUID()
   style |-> "dot"]                               \* action: Actions.OutboxStreamAck

\* processBatchWithTimeout resolved: clear the timer, build and send the ACK
Resolve(B) ==
  LET B1 == [B EXCEPT !.st = "resolved", !.sendable = CanSend,
                      !.reply = IF kind = "http" THEN 200 ELSE @] IN
  IF CanSend THEN [B1 EXCEPT !.acks = @ + 1, !.ack = AckFrame(B)] ELSE B1

\* faulty variant of Awaiting: a rejection of withTimeout's promise is not final
AwaitingAfterReject(B) == B.st \in {"processing", "timedout", "failed"}

\* the promise returned by withTimeout is still pending: neither the timer nor
\* the work has settled it
Awaiting(B) == B.st = "processing"

\* after a change of the tasks: start what may start, resolve when all are done
Advance(B) ==
  LET B1 == [B EXCEPT !.tasks = StartReady(@)] IN
  IF Awaiting(B1) /\ AllTasksDone(B1.tasks) THEN Resolve(B1) ELSE B1

\* processBatchWithTimeout(p) up to its first await: dispatchBatch builds the
\* per-type index lists and one task per subscribed type, the timer is armed
Dispatched(wires, s, corr) ==
  LET T0 == [t \in Types |->
                LET idxs == PerTypeIdx(wires, subs, t, 0) IN
                IF idxs = <<>> THEN NoTask
                ELSE [NoTask EXCEPT !.state = "scheduled", !.idxs = idxs,
                                    !.handler = subs[t]]]
  IN Advance([NewBatch EXCEPT !.st = "processing", !.events = wires,
                              !.sock = s, !.corr = corr, !.tasks = T0])

\* onMessage / onChildMessage, case OutboxStreamBatch, up to the first await
BatchArriveUpTo(n, wires, s, corr) ==
  /\ FewerThan(n)
  /\ IF kind = "ws"
     THEN s # NoSock /\ readyState[s] \in {"OPEN", "CLOSING"} /\ corr = NoCorr
     ELSE /\ kind = "ipc"
          /\ s = NoSock /\ ipcListening /\ childAlive /\ corr \in {NoCorr, NextBatch}
  /\ batches' = [batches EXCEPT ![NextBatch] = Dispatched(wires, s, corr)]
  /\ UNCHANGED <<kind, hb, httpVars, pongPassword, pingVars, thrown, connVars, queryInFlight, queries, ipcVars, subs>>

BatchArrive(wires, s, corr) == BatchArriveUpTo(MaxBatches, wires, s, corr)

\* a handler invocation returns (its promise resolves): next event of the type
HandlerReturn(b, t) ==
  /\ batches[b].tasks[t].state = "running"
  /\ LET T == batches[b].tasks[t]
         T1 == [T EXCEPT !.ended = @ + 1, !.k = @ + 1,
                         !.state = IF T.k + 1 < Len(T.idxs) THEN "scheduled" ELSE "done"]
     IN batches' = [batches EXCEPT ![b] = Advance([batches[b] EXCEPT !.tasks[t] = T1])]
  /\ UNCHANGED <<kind, hb, httpVars, pongPassword, pingVars, thrown, connVars, queryInFlight, queries, ipcVars, subs>>

\* a handler invocation throws or rejects: its task, and with it the batch, fails
HandlerThrow(b, t) ==
  /\ batches[b].tasks[t].state = "running"
  /\ batches' = [batches EXCEPT ![b] = Advance([batches[b] EXCEPT
                   !.tasks[t].state = "failed", !.threw = TRUE,
                   !.st = IF Awaiting(batches[b]) THEN "failed" ELSE @,
                   !.reply = IF kind = "http" /\ Awaiting(batches[b]) THEN 500 ELSE @])]
  /\ UNCHANGED <<kind, hb, httpVars, pongPassword, pingVars, thrown, connVars, queryInFlight, queries, ipcVars, subs>>

\* the timer of withTimeout fires
BatchTimeout(b) ==
  /\ Awaiting(batches[b])
  /\ batches' = [batches EXCEPT ![b].st = "timedout", ![b].expired = TRUE,
                                ![b].reply = IF kind = "http" THEN 500 ELSE @]
  /\ UNCHANGED <<kind, hb, httpVars, pongPassword, pingVars, thrown, connVars, queryInFlight, queries, ipcVars, subs>>

Batches ==
  \/ \E t \in Types, h \in Handlers : Subscribe(t, h)
  \/ \E t \in Types, h \in Handlers : Unsubscribe(t, h)
  \/ \E wires \in EventLists, s \in SockIds \cup {NoSock},
        corr \in BatchIds \cup {NoCorr} : BatchArrive(wires, s, corr)
  \/ \E b \in BatchIds, t \in Types : HandlerReturn(b, t)
  \/ \E b \in BatchIds, t \in Types : HandlerThrow(b, t)
  \/ \E b \in BatchIds : BatchTimeout(b)

\* ---- HttpClient: query ------------------------------------------------------
\* query(req): the size check, then fetch
HttpQuery(len) ==
  /\ kind = "http"
  /\ UnusedQueries # {}
  /\ LET q == NextQuery IN
     queries' = IF len + TRANSPORT_OVERHEAD_WIRE > maxBytes
                THEN [queries EXCEPT ![q].res = Rejected("too_large")]
                ELSE [queries EXCEPT ![q] = [NewQuery EXCEPT
                        !.res = Pending, !.waiter = Pending,
                        !.sendP = "resolved", !.len = len]]
  /\ UNCHANGED <<kind, hb, httpVars, pongPassword, pingVars, thrown, connVars, queryInFlight, ipcVars, subs, batches>>

\* fetch resolved: the status check, then the mapping of the response body
HttpOnResponse(q, statusOk, pl) ==
  /\ kind = "http"
  /\ queries[q].res.st = "pending"
  /\ queries' = IpcSettle([queries EXCEPT ![q].answers = @ + 1], q,
                          IF statusOk THEN Decide(pl) ELSE Rejected("http_status"))
  /\ UNCHANGED <<kind, hb, httpVars, pongPassword, pingVars, thrown, connVars, queryInFlight, ipcVars, subs, batches>>

\* ---- HttpClient: inbound requests -------------------------------------------
\* truthiness test of this.token
HasToken(tk) == tk # NoTok /\ tk # ""

\* ---- other inbound messages -------------------------------------------------
\* the client's inbound listener of channel s is attached and the channel delivers
Receives(s) ==
  IF kind = "ws" THEN s # NoSock /\ readyState[s] \in {"OPEN", "CLOSING"}
  ELSE kind = "ipc" /\ s = NoSock /\ ipcListening /\ childAlive

\* onMessage / onChildMessage / onProcessMessage for an envelope with action
\* 'error' that answers request q: no case of the switch matches, it is ignored
OnErrorEnvelope(q) ==
  /\ queries[q].sendP \in {"pending", "resolved"}
  /\ Receives(queries[q].sock)
  /\ ~queries[q].errored
  /\ queries' = [queries EXCEPT ![q].errored = TRUE]
  /\ UNCHANGED <<kind, hb, httpVars, pongPassword, pingVars, thrown, connVars, queryInFlight, ipcVars, subs, batches>>

\* faulty variant of HasPassword: any given string counts, the empty one too
HasPasswordGiven(pw) == pw # NoPw

\* onMessage / onChildMessage / onProcessMessage for a batch whose action is
\* spelled outboxStreamBatch: no case of the switch matches, it is ignored
BatchArriveCamel(s) ==
  /\ FewerThan(MaxBatches)
  /\ Receives(s)
  /\ batches' = [batches EXCEPT ![NextBatch] =
                   [NewBatch EXCEPT !.st = "ignored", !.style = "camel", !.sock = s]]
  /\ UNCHANGED <<kind, hb, httpVars, pongPassword, pingVars, thrown, connVars, queryInFlight, queries, ipcVars, subs>>

\* truthiness test of this.pongPassword
HasPassword(pw) == pw # NoPw /\ pw # ""

\* the Pong built in reply to a Ping with correlationId corr
PongFrame(corr) ==
  [sent |-> TRUE,
   sock |-> IF kind = "ws" THEN ws ELSE NoSock,
   corr |-> IF kind = "ipc" THEN corr ELSE NoCorr,
   fresh |-> kind = "ipc" /\ corr = NoCorr,        \* msg.correlationId || randomUUID()
   password |-> IF HasPassword(pongPassword) THEN pongPassword ELSE NoPw]

\* onMessage / onChildMessage / onProcessMessage, case Ping, received on channel s
OnPing(s, corr) ==
  /\ Receives(s)
  /\ lastPing' = [seen |-> TRUE, sock |-> s, corr |-> corr]
  /\ lastPong' = IF CanSend THEN PongFrame(corr) ELSE NoPong
  /\ handshaken' = (handshaken \/ CanSend)
  /\ UNCHANGED <<kind, hb, httpVars, pongPassword, thrown, connVars, queryInFlight, queries, ipcVars, subs, batches>>

\* nodeHttpHandler / expressRouter, POST on the ping path: the Pong is the reply
HttpPing(corr) ==
  /\ kind = "http"
  /\ ~HasToken(token)
  /\ lastPing' = [seen |-> TRUE, sock |-> NoSock, corr |-> corr]
  /\ lastPong' = PongFrame(corr)
  /\ handshaken' = TRUE
  /\ UNCHANGED <<kind, hb, httpVars, pongPassword, thrown, connVars, queryInFlight, queries, ipcVars, subs, batches>>

\* ---- HttpClient: inbound requests, continued ------------------------------
\* String(req.headers['x-transport-token'] ?? '')
Got(req) == IF req.tok = NoTok THEN "" ELSE req.tok

\* faulty variant of Unauthorized: the ping path is served without the check
UnauthorizedHookOnly(req) ==
  req.path = "hook" /\ ~samePaths /\ HasToken(token) /\ Got(req) # token

\* the token check that precedes every route
Unauthorized(req) == HasToken(token) /\ Got(req) # token

\* pathname === pingPath, tested (and routed) before the webhook path
IsPingPath(req) == req.path = "ping" \/ samePaths

\* readBodyBounded(req, maxBytes - TRANSPORT_OVERHEAD_WIRE) in nodeHttpHandler,
\* express.json({ limit: maxBytes }) in expressRouter()
BodyLimit(req) ==
  IF req.entry = "node" THEN maxBytes - TRANSPORT_OVERHEAD_WIRE ELSE maxBytes

\* JSON.parse(body.body || '{}'): an empty body is read as the envelope {}
Parsed(req) == IF req.len = 0 THEN "no_action" ELSE req.body

\* the reply written before any dispatch; NoResp when the batch is dispatched
HttpSyncReply(req) ==
  IF Unauthorized(req) THEN [code |-> 401, body |-> "text"]
  ELSE IF IsPingPath(req) THEN [code |-> 200, body |-> "pong"]
  ELSE IF req.len > BodyLimit(req) THEN [code |-> 413, body |-> "text"]
  ELSE IF Parsed(req) = "invalid_json" THEN [code |-> 400, body |-> "text"]
  ELSE IF Parsed(req) \in {"no_action", "other_action"} THEN [code |-> 422, body |-> "text"]
  ELSE IF Parsed(req) = "no_events" THEN [code |-> 400, body |-> "text"]
  ELSE NoResp

\* nodeHttpHandler / the routes of expressRouter() for a POST request, up to
\* the reply or to the first await of processBatchWithTimeout
HttpRequest(req, wires) ==
  /\ kind = "http"
  /\ LET r == HttpSyncReply(req) IN
     IF r # NoResp
     THEN /\ httpResp' = r
          /\ IF r.body = "pong"
             THEN /\ lastPing' = [seen |-> TRUE, sock |-> NoSock, corr |-> NoCorr]
                  /\ lastPong' = PongFrame(NoCorr)
                  /\ handshaken' = TRUE
             ELSE UNCHANGED pingVars
          /\ UNCHANGED batches
     ELSE /\ FewerThan(MaxBatches)
          /\ batches' = [batches EXCEPT ![NextBatch] =
                           [Dispatched(wires, NoSock, NoCorr) EXCEPT !.len = req.len]]
          /\ UNCHANGED <<httpResp, pingVars>>
  /\ UNCHANGED <<kind, hb, token, samePaths, pongPassword, thrown, connVars, queryInFlight,
                 queries, ipcVars, subs>>

\* ---- ElectronIpcRendererClient: query ----------------------------------------
\* query(): register the resolver under a fresh requestId, send the request,
\* enter the wait loop and sleep in its first delay()
ErQuery ==
  /\ kind = "er"
  /\ UnusedQueries # {}
  /\ queries' = [queries EXCEPT ![NextQuery] = [NewQuery EXCEPT
                   !.res = Pending, !.waiter = Pending, !.entry = TRUE,
                   !.sendP = "resolved", !.loop = "polling"]]
  /\ UNCHANGED <<kind, hb, httpVars, pongPassword, pingVars, thrown, connVars, queryInFlight, ipcVars, subs, batches>>

\* what the QueryResponse case does with the resolver it found: it throws when
\* ok === false, otherwise it calls the resolver with the data
ErDecide(pl) ==
  IF pl.present /\ pl.ok = "false" THEN Pending
  ELSE Resolved(IF pl.present THEN pl.data ELSE NoVal)

\* handleIncoming, case QueryResponse, with requestId id (NoQuery: none)
ErOnQueryResponse(id, pl) ==
  /\ kind = "er"
  /\ ipcListening
  /\ id # NoQuery =>
       /\ queries[id].sendP = "resolved"
       /\ queries[id].answers < MaxAnswers
  /\ queries' =
       IF id = NoQuery THEN queries
       ELSE LET Q1 == [queries EXCEPT ![id].answers = @ + 1] IN
            IF ~Q1[id].entry THEN Q1
            ELSE [Q1 EXCEPT ![id].entry = FALSE, ![id].waiter = ErDecide(pl)]
  /\ UNCHANGED <<kind, hb, httpVars, pongPassword, pingVars, thrown, connVars, queryInFlight, ipcVars, subs, batches>>

\* delay() of the wait loop of query q ends; late: Date.now() >= deadline
ErPoll(q, late) ==
  /\ kind = "er"
  /\ queries[q].loop = "polling"
  /\ queries' =
       IF late
       THEN [queries EXCEPT ![q].entry = FALSE, ![q].loop = "ended",
                            ![q].res = Rejected("query_timeout")]
       ELSE IF queries[q].entry THEN queries
       ELSE IF queries[q].waiter.st = "resolved"
       THEN [queries EXCEPT ![q].loop = "ended", ![q].res = queries[q].waiter]
       ELSE [queries EXCEPT ![q].loop = "awaiting"]
  /\ UNCHANGED <<kind, hb, httpVars, pongPassword, pingVars, thrown, connVars, queryInFlight, ipcVars, subs, batches>>

\* close(): detach the listener, clear the resolvers and the subscriptions
ErClose ==
  /\ kind = "er"
  /\ ipcListening' = FALSE
  /\ queries' = [q \in QueryIds |-> [queries[q] EXCEPT !.entry = FALSE]]
  /\ subs' = [t \in Types |-> NoHandler]
  /\ UNCHANGED <<kind, hb, httpVars, pongPassword, pingVars, thrown, connVars, queryInFlight, childAlive, batches>>

\* ---- WsClientTransport: heartbeat ---------------------------------------------
Max2(a, b) == IF a > b THEN a ELSE b
Min2(a, b) == IF a < b THEN a ELSE b

\* the interval startHeartbeatLoop passes: Math.max(500, Math.floor(hbTimeout / 2))
HbInterval(t) == Max2(500, t \div 2)

\* one iteration of the loop of exponentialIntervalAsync up to its setTimeout:
\* the tick (a Ping when the socket is connected, reset() when a Pong is fresh),
\* then the new delay
HbTick(h, connected, fresh) ==
  LET didReset == connected /\ fresh
  IN [h EXCEPT !.ticks = @ + 1,
               !.pings = IF connected THEN @ + 1 ELSE @,
               !.didReset = didReset,
               !.delay = IF didReset THEN h.interval ELSE Min2(h.maxDelay, h.delay * 2),
               !.state = "sleeping"]

\* startHeartbeatLoop() on a transport with heartbeatTimeout t: the controller
\* is created and the loop runs its first iteration
HbStart(t, connected, fresh) ==
  /\ hb.state = "off"
  /\ LET delay == Max2(1, HbInterval(t))
         h == [NoHb EXCEPT !.timeout = t, !.interval = HbInterval(t), !.delay = delay,
                           !.maxDelay = Max2(delay, IF t = 0 THEN delay * 8 ELSE t)]
     IN hb' = HbTick(h, connected, fresh)
  /\ UNCHANGED <<kind, httpVars, pongPassword, pingVars, thrown, connVars, queryInFlight,
                 queries, ipcVars, subs, batches>>

\* the timer of the loop fires: while (!destroyed), next iteration
HbWake(connected, fresh) ==
  /\ hb.state = "sleeping"
  /\ hb.ticks < MaxTicks
  /\ hb' = IF hb.destroyed THEN [hb EXCEPT !.state = "ended"]
           ELSE HbTick(hb, connected, fresh)
  /\ UNCHANGED <<kind, httpVars, pongPassword, pingVars, thrown, connVars, queryInFlight,
                 queries, ipcVars, subs, batches>>

\* disconnect(): heartbeatCtl.destroy()
HbDestroy ==
  /\ hb.state = "sleeping"
  /\ hb' = [hb EXCEPT !.destroyed = TRUE]
  /\ UNCHANGED <<kind, httpVars, pongPassword, pingVars, thrown, connVars, queryInFlight,
                 queries, ipcVars, subs, batches>>

\* ---- specifications --------------------------------------------------------
\* the host attaches one socket
WsAttachFirst == (\A s \in SockIds : readyState[s] = "UNUSED") /\ WsAttach

\* queries of a WsClient on an attached socket and of an IPC client
NextQ ==
  \/ WsAttachFirst
  \/ WsClose
  \/ \E s \in SockIds : SockOpen(s)
  \/ \E s \in SockIds : SockClose(s)
  \/ WsQueries
  \/ IpcQueries

SpecQ == Init /\ [][NextQ]_vars

\* batches of a WsClient on an attached socket and of an IPC client
NextB ==
  \/ WsAttachFirst
  \/ WsClose
  \/ \E s \in SockIds : SockOpen(s)
  \/ \E s \in SockIds : SockClose(s)
  \/ IpcClose
  \/ IpcExit
  \/ Batches

SpecB == Init /\ [][NextB]_vars

Next == Lifecycle \/ WsQueries
Spec == Init /\ [][Next]_vars

AllKinds == Kinds \cup {"http"}

\* queries, pings and error envelopes of a client of any kind
NextM ==
  \/ WsAttachFirst
  \/ WsClose
  \/ \E s \in SockIds : SockOpen(s)
  \/ \E s \in SockIds : SockClose(s)
  \/ \E len \in WireLens : WsQuery(len)
  \/ \E q \in QueryIds : WsDeadline(q)
  \/ \E len \in WireLens, t \in BOOLEAN : IpcQuery(len, t)
  \/ \E q \in QueryIds : IpcDeadline(q)
  \/ IpcExit
  \/ \E len \in WireLens : HttpQuery(len)
  \/ \E q \in QueryIds, ok \in BOOLEAN, pl \in Payloads : HttpOnResponse(q, ok, pl)
  \/ \E q \in QueryIds : OnErrorEnvelope(q)
  \/ \E s \in SockIds \cup {NoSock} : BatchArriveCamel(s)
  \/ \E s \in SockIds \cup {NoSock}, corr \in PingCorrs : OnPing(s, corr)
  \/ \E corr \in PingCorrs : HttpPing(corr)

SpecM == InitOf(AllKinds, Passwords) /\ [][NextM]_vars

\* subscriptions of a client of any kind, with batches delivered to the handlers
NextS ==
  \/ WsAttachFirst
  \/ \E t \in Types, h \in Handlers : Subscribe(t, h)
  \/ \E t \in Types, h \in Handlers : Unsubscribe(t, h)
  \/ \E wires \in EventLists, s \in SockIds \cup {NoSock},
        corr \in BatchIds \cup {NoCorr} : BatchArrive(wires, s, corr)
  \/ \E b \in BatchIds, t \in Types : HandlerReturn(b, t)

SpecS == InitOf(AllKinds, {NoPw}) /\ [][NextS]_vars

\* the events of a request's batch: short lists, none unless the body is a batch
HttpWires(req) ==
  IF req.body = "batch" THEN {w \in EventLists : Len(w) <= MaxHttpEvents} ELSE {<<>>}

\* an HttpClient serving webhook and ping requests through either entry point
NextH ==
  \/ \E t \in Types, h \in Handlers : Subscribe(t, h)
  \/ \E req \in HttpReqs : \E wires \in HttpWires(req) : HttpRequest(req, wires)
  \/ \E b \in BatchIds, t \in Types : HandlerReturn(b, t)
  \/ \E b \in BatchIds, t \in Types : HandlerThrow(b, t)
  \/ \E b \in BatchIds : BatchTimeout(b)

SpecH == InitWith({"http"}, {"pw"}, Tokens, BOOLEAN) /\ [][NextH]_vars

\* the batches the server pipelines: short event lists
PipelinedLists == {w \in EventLists : Len(w) <= MaxPipelinedEvents}

\* connect() is called on a client without a socket: at the start or after close()
WsConnectAnew == ws = NoSock /\ ~reconnecting /\ WsConnect

\* a managed WsClient over any number of connection attempts
NextR ==
  \/ WsConnectAnew
  \/ WsClose
  \/ \E s \in SockIds : SockOpen(s)
  \/ \E s \in SockIds : SockFail(s)
  \/ \E s \in SockIds : SockClose(s)
  \/ \E s \in SockIds : SockForget(s)
  \/ LoopWake

SpecR == InitOf({"ws"}, {NoPw}) /\ [][NextR]_vars

\* a managed WsClient that receives batches while its socket comes and goes
NextA ==
  \/ WsConnectAnew
  \/ WsClose
  \/ \E s \in SockIds : SockOpen(s)
  \/ \E s \in SockIds : SockClose(s)
  \/ \E t \in Types, h \in Handlers : Subscribe(t, h)
  \/ \E wires \in EventLists, s \in SockIds : BatchArrive(wires, s, NoCorr)
  \/ \E b \in BatchIds, t \in Types : HandlerReturn(b, t)

SpecA == InitOf({"ws"}, {NoPw}) /\ [][NextA]_vars

\* queries of an ElectronIpcRendererClient
NextE ==
  \/ ErQuery
  \/ \E id \in QueryIds \cup {NoQuery}, pl \in Payloads : ErOnQueryResponse(id, pl)
  \/ \E q \in QueryIds, late \in BOOLEAN : ErPoll(q, late)
  \/ ErClose

SpecE == InitOf({"er"}, {NoPw}) /\ [][NextE]_vars

\* the heartbeat loop of a WsClientTransport
NextK ==
  \/ \E t \in HbTimeouts, c \in BOOLEAN, f \in BOOLEAN : HbStart(t, c, f)
  \/ \E c \in BOOLEAN, f \in BOOLEAN : HbWake(c, f)
  \/ HbDestroy

SpecK == InitOf({"ws"}, {NoPw}) /\ [][NextK]_vars

\* a WsClient on an attached socket or an IPC client to which the server sends
\* a batch before the handlers of the previous one have returned
NextP ==
  \/ WsAttachFirst
  \/ \E t \in Types, h \in Handlers : Subscribe(t, h)
  \/ \E wires \in PipelinedLists, s \in SockIds \cup {NoSock},
        corr \in BatchIds \cup {NoCorr} : BatchArriveUpTo(MaxPipelined, wires, s, corr)
  \/ \E b \in BatchIds, t \in Types : HandlerReturn(b, t)
  \/ \E b \in BatchIds : BatchTimeout(b)

SpecP == Init /\ [][NextP]_vars

\* an IPC client that issues queries while the server pipelines batches to it
NextI ==
  \/ \E t \in Types : Subscribe(t, "h1")
  \/ \E t \in BOOLEAN : IpcQuery(maxBytes - TRANSPORT_OVERHEAD_WIRE, t)
  \/ \E wires \in PipelinedLists, corr \in BatchIds \cup {NoCorr} :
        BatchArriveUpTo(MaxPipelined, wires, NoSock, corr)
  \/ \E b \in BatchIds, t \in Types : HandlerReturn(b, t)

SpecI == InitOf({"ipc"}, {NoPw}) /\ [][NextI]_vars

\* a managed or attached WsClient through connects, closes and reconnects, and
\* an IPC client through close and exit, with queries pending meanwhile
NextL ==
  \/ Lifecycle
  \/ \E len \in WireLens : WsQuery(len)
  \/ \E q \in QueryIds : WsDeadline(q)
  \/ \E len \in WireLens, t \in BOOLEAN : IpcQuery(len, t)
  \/ \E q \in QueryIds : IpcDeadline(q)
  \/ IpcClose
  \/ IpcExit

SpecL == Init /\ [][NextL]_vars

\* ---- batch claims (checked under SpecB) -------------------------------------
UsedBatches == {b \in BatchIds : batches[b].st # "unused"}

\* indices (from 0) of the events of type t in batch b, in arrival order
TypeIdx(b, t) ==
  SelectSeq([i \in 1..Len(batches[b].events) |-> i - 1],
            LAMBDA i : batches[b].events[i + 1] = t)

\* every invocation the batch called for has returned
AllReturned(b) ==
  \A t \in Types :
     LET T == batches[b].tasks[t] IN
     T.state \in {"none", "done"} /\ T.ended = Len(T.idxs) /\ Len(T.started) = T.ended

\* C1 as stated: a batch whose handler invocations all returned successfully
\* before the deadline has exactly one ACK, with ok = true and
\* okIndices = [0, ..., n-1].
C1_AckWheneverProcessed ==
  \A b \in UsedBatches :
     batches[b].st = "resolved" =>
        /\ batches[b].acks = 1
        /\ batches[b].ack.ok
        /\ batches[b].ack.okIndices = [i \in 1..Len(batches[b].events) |-> i - 1]

\* C1 amended: such a batch has exactly one ACK, with ok = true and
\* okIndices = [0, ..., n-1], when the connection could take a frame at the
\* moment the last invocation returned, and no ACK otherwise; an ACK is never
\* emitted twice and never before every invocation has returned.
C1_AckWhenProcessedAndConnected ==
  \A b \in UsedBatches :
     /\ batches[b].acks <= 1
     /\ batches[b].acks = 1 => batches[b].st = "resolved" /\ AllReturned(b)
     /\ batches[b].st = "resolved" =>
           /\ AllReturned(b)
           /\ batches[b].sendable =>
                 /\ batches[b].acks = 1
                 /\ batches[b].ack.ok
                 /\ batches[b].ack.okIndices = [i \in 1..Len(batches[b].events) |-> i - 1]
           /\ ~batches[b].sendable => batches[b].acks = 0

\* a batch of three events, two of one type, processed and acknowledged
C1_Witness ==
  \E b \in UsedBatches :
     /\ batches[b].acks = 1
     /\ Len(batches[b].events) = 3
     /\ \E t \in Types : batches[b].tasks[t].ended = 2
     /\ \E t \in Types : batches[b].tasks[t].ended = 1

\* C2: a batch in which a handler threw or rejected, or whose deadline timer
\* fired, has no ACK, whatever its handlers do afterwards.
C2_NoAckAfterFailure ==
  \A b \in UsedBatches :
     (batches[b].threw \/ batches[b].expired) => batches[b].acks = 0

\* the deadline fired, the slow handlers then all returned successfully, the
\* connection is still usable, and there is no ACK
C2_Witness ==
  \E b \in UsedBatches :
     /\ batches[b].expired
     /\ ~batches[b].threw
     /\ AllReturned(b)
     /\ \E t \in Types : batches[b].tasks[t].ended >= 1
     /\ CanSend
     /\ batches[b].acks = 0

\* C3, state part: the invocations made so far for a type are a gap-free
\* prefix of the type's events in arrival order, at most one of them has not
\* returned, and a finished task has invoked the handler once per event.
C3_Sequential ==
  \A b \in UsedBatches : \A t \in Types :
     LET T == batches[b].tasks[t] IN
     /\ Len(T.started) <= Len(TypeIdx(b, t))
     /\ \A j \in 1..Len(T.started) : T.started[j] = TypeIdx(b, t)[j]
     /\ T.ended <= Len(T.started)
     /\ Len(T.started) <= T.ended + 1
     /\ T.state = "done" => T.started = TypeIdx(b, t) /\ T.ended = Len(T.started)

\* C3, step part: when a batch arrives, every type that is subscribed and has
\* events in it gets its handler invoked for the first of them, and no other
\* type gets an invocation.
C3_Arrival ==
  \A b \in BatchIds :
     (batches[b].st = "unused" /\ batches'[b].st # "unused") =>
        \A t \in Types :
           LET n == Cardinality({i \in 1..Len(batches'[b].events) : batches'[b].events[i] = t})
               first == CHOOSE i \in 1..Len(batches'[b].events) :
                           /\ batches'[b].events[i] = t
                           /\ \A j \in 1..(i - 1) : batches'[b].events[j] # t
           IN IF subs[t] # NoHandler /\ n > 0
              THEN /\ batches'[b].tasks[t].started = <<first - 1>>
                   /\ batches'[b].tasks[t].handler = subs[t]
              ELSE batches'[b].tasks[t].started = <<>>

\* C3: within a batch the handler of a subscribed type is invoked once per
\* event of the type, in arrival order, each invocation starting only after
\* the previous one of the type has completed.
C3_OncePerEventInOrder == []C3_Sequential /\ [][C3_Arrival]_vars

\* the two events of a type were handled one after the other around an event
\* of the other type
C3_Witness ==
  \E b \in UsedBatches : \E t \in Types :
     /\ batches[b].tasks[t].started = <<0, 2>>
     /\ batches[b].tasks[t].ended = 2
     /\ batches[b].tasks[t].state = "done"

\* C4: no task of a batch waits for a task of another type: every task has
\* begun its first invocation in the turn the batch arrived, so none is ever
\* left scheduled behind a slow one.
C4_TypesRunConcurrently ==
  \A b \in UsedBatches : \A t \in Types :
     batches[b].tasks[t].state # "none" =>
        /\ batches[b].tasks[t].state # "scheduled"
        /\ Len(batches[b].tasks[t].started) >= 1

\* type B's invocation started and finished while type A's first invocation
\* is still in progress
C4_Witness ==
  \E b \in UsedBatches :
     /\ batches[b].tasks["A"].state = "running"
     /\ batches[b].tasks["A"].ended = 0
     /\ batches[b].tasks["B"].state = "done"
     /\ batches[b].tasks["B"].ended >= 1

\* ---- query claims (checked under SpecQ) ---------------------------------------
IsPending(q) == queries[q].res.st = "pending"

\* a step in which close() is called or a disconnect is observed
Disconnects == WsClose \/ IpcClose \/ IpcExit \/ \E s \in SockIds : SockClose(s)

\* C5 as stated, on an open socket: a WsClient query() issued while another
\* query is pending is rejected with the query-in-flight error, sends nothing
\* and leaves the pending query untouched.
C5_SecondQueryFailsInFlight ==
  [][\A len \in WireLens :
       (/\ WsQuery(len)
        /\ ws # NoSock /\ readyState[ws] = "OPEN"
        /\ \E p \in QueryIds : IsPending(p)) =>
          /\ queries'[NextQuery].res = Rejected("in_flight")
          /\ queries'[NextQuery].sock = NoSock
          /\ \A p \in QueryIds : IsPending(p) => queries'[p] = queries[p]]_vars

\* C6: the resolve/reject handles stored for a query are invoked at most once,
\* and the outcome of a settled query never changes.
C6_SettledAtMostOnce ==
  /\ [](\A q \in QueryIds : queries[q].calls <= 1)
  /\ [][\A q \in QueryIds :
         queries[q].res.st \in {"resolved", "rejected"} =>
            queries'[q].res = queries[q].res]_vars

\* a query was rejected by its deadline, its response arrived afterwards and
\* changed nothing
C6_Witness ==
  \E q \in QueryIds :
     /\ queries[q].res = Rejected("query_timeout")
     /\ queries[q].answers >= 1
     /\ queries[q].calls = 1

\* C7 as stated, in finite-run form: a query that is still pending has its
\* deadline timer armed, so something is left that will settle it.
C7_PendingQueryWillSettle ==
  \A q \in QueryIds : IsPending(q) => queries[q].dlTimer

\* C8 as stated: a step that closes the client or observes a disconnect leaves
\* every query that was pending rejected and its deadline timer cleared.
C8_DisconnectRejectsPending ==
  [][Disconnects =>
       \A q \in QueryIds :
          IsPending(q) => queries'[q].res.st = "rejected" /\ ~queries'[q].dlTimer]_vars

\* C9 as stated: the QueryResponse for a query that has timed out settles
\* nothing: no promise and no stored handle changes state.
C9_LateResponseDiscarded ==
  [][\A a \in QueryIds, pl \in Payloads :
       (/\ queries[a].res = Rejected("query_timeout")
        /\ WsOnQueryResponse(a, pl) \/ IpcOnQueryResponse(a, pl)) =>
          \A q \in QueryIds :
             /\ queries'[q].res = queries[q].res
             /\ queries'[q].waiter = queries[q].waiter]_vars

\* the response to request q is handed to q's own stored handles
Matched(q, pl) ==
  \/ kind = "ws" /\ queryInFlight = q /\ WsOnQueryResponse(q, pl)
  \/ kind = "ipc" /\ queries[q].entry /\ IpcOnQueryResponse(q, pl)

\* C10: a matched QueryResponse settles the query: resolved with payload.data
\* iff ok is true, rejected with the payload's err text (or the default text
\* when it has none) iff ok is false, rejected as invalid iff the payload is
\* missing or ok is not a boolean.
C10_ResponseDecidesOutcome ==
  [][\A q \in QueryIds, pl \in Payloads :
       Matched(q, pl) =>
          LET r == queries'[q].res IN
          /\ IsPending(q)
          /\ r.st # "pending"
          /\ (r.st = "resolved") <=> (pl.present /\ pl.ok = "true")
          /\ r.st = "resolved" => r.val = pl.data
          /\ (pl.present /\ pl.ok = "false") <=>
                (r = Rejected(IF pl.err = NoVal THEN "query failed" ELSE pl.err))
          /\ (~pl.present \/ pl.ok \notin {"true", "false"}) <=>
                (r = Rejected("invalid_response"))]_vars

\* one query resolved with the data of its response, another rejected with
\* the err text of its response
C10_Witness ==
  \E q, r \in QueryIds :
     /\ queries[q].res = Resolved("d2") /\ queries[q].answers = 1
     /\ queries[r].res = Rejected("e1") /\ queries[r].answers = 1

\* ---- claims C11..C15: error envelopes, size guard, handshake, ping ----------
\* C11 as stated: an inbound envelope with action 'error' that correlates to a
\* pending query rejects that query in the same step, instead of leaving it
\* pending until its deadline.
C11_ErrorEnvelopeRejects ==
  [][\A q \in QueryIds :
       (IsPending(q) /\ OnErrorEnvelope(q)) => queries'[q].res.st = "rejected"]_vars

\* the request frame of query q was handed to the socket, pipe or HTTP request
FrameSent(q) == queries[q].len > 0

\* C12 as stated: on every transport no query envelope with
\* utf8_len(JSON(env)) + 256 > maxMessageBytes is handed to the channel.
C12_NoOversizedQuerySent ==
  \A q \in QueryIds :
     FrameSent(q) => queries[q].len + TRANSPORT_OVERHEAD_WIRE <= maxBytes

\* C13 as stated: on WsClient and the IPC clients no QueryRequest frame is
\* sent before the first Ping/Pong exchange with the peer has taken place.
C13_NoQueryBeforeHandshake ==
  [][\A q \in QueryIds :
       (kind \in Kinds /\ ~FrameSent(q) /\ queries'[q].len > 0) => handshaken]_vars

\* C14 as stated: every inbound Ping on a persistent-bidi client is answered,
\* as the next outbound envelope of the same channel, by a Pong that carries
\* the Ping's correlationId when the Ping had one.
C14_PongAnswersPing ==
  [][\A s \in SockIds \cup {NoSock}, corr \in PingCorrs :
       OnPing(s, corr) =>
          /\ lastPong'.sent
          /\ lastPong'.sock = s
          /\ corr # NoCorr => lastPong'.corr = corr]_vars

C17_SubscribeUnsubscribeRestores ==
  /\ [](\A t \in Types, h \in Handlers :
          subs[t] = NoHandler =>
             LET S1 == Sub(subs, t, h)
                 S2 == Unsub(S1, t, h)
             IN /\ SubscriptionCount(S1, t) = 1
                /\ SubscriptionCount(S2, t) = SubscriptionCount(subs, t)
                /\ S2 = subs
                /\ Unsub(S2, t, h) = S2)
  /\ [][\A t \in Types, h \in Handlers :
          Unsubscribe(t, h) =>
             /\ subs[t] = h => SubscriptionCount(subs', t) = 0
             /\ subs[t] # h => subs' = subs
             /\ thrown' = "none"]_vars

\* a handler was subscribed, received an event, and was unsubscribed again
C17_Witness ==
  /\ \A t \in Types : SubscriptionCount(subs, t) = 0
  /\ \E b \in BatchIds, t \in Types : batches[b].tasks[t].handler = "h2"

\* C18 as stated: on HttpClient a handler can be subscribed to an event type
\* that already has one, and is then registered next to it.
C18_HttpAllowsSeveralHandlers ==
  [][\A t \in Types, h \in Handlers :
       (kind = "http" /\ subs[t] # NoHandler /\ subs[t] # h /\ Subscribe(t, h)) =>
          thrown' = "none" /\ subs' # subs]_vars

\* ---- claims C19, C20: close() ------------------------------------------------
\* C19: close() never throws and is idempotent: in every reachable state a
\* close() completes normally, and a second close() completes normally and
\* leaves the state the first close() produced.
C19_CloseIdempotentNoThrow ==
  /\ [](kind = "ws" =>
          /\ CloseThrown(Conn) = "none"
          /\ CloseThrown(WsCloseConn(Conn)) = "none"
          /\ WsCloseConn(WsCloseConn(Conn)) = WsCloseConn(Conn))
  /\ [](kind = "ipc" => IpcClosed(IpcClosed(IpcState)) = IpcClosed(IpcState))
  /\ [][(WsClose \/ IpcClose) => thrown' = "none"]_vars

\* close() was called on a managed WsClient while a query was pending and a
\* reconnect loop was asleep
C19_Witness ==
  /\ kind = "ws" /\ ws = NoSock /\ ownsSocket /\ sleepers > 0
  /\ \E q \in QueryIds : IsPending(q)

\* C20 as stated: in managed mode, once close() has been called (and neither
\* connect() nor attach() is called again) no new socket is opened, whatever
\* the closed socket emits and whatever the reconnect loop was doing.
C20_NoSocketAfterClose ==
  [][(/\ kind = "ws" /\ ownsSocket /\ ws = NoSock
      /\ ~(WsConnect \/ WsAttach)) =>
         \A s \in SockIds : readyState[s] = "UNUSED" => readyState'[s] = "UNUSED"]_vars

\* ---- claim C21: attached mode ------------------------------------------------
\* the client holds no socket of its own and no connect() or reconnect loop is
\* under way: every socket it has seen was supplied through attach()
AttachedOnly ==
  /\ kind = "ws" /\ ~ownsSocket /\ ~reconnecting /\ sleepers = 0
  /\ \A s \in SockIds : openWait[s] = "none"

\* C21: in attached mode WsClient never opens a socket itself: whatever
\* 'close' and 'error' events the attached sockets emit, no socket is created
\* (other than by a further attach()) and no reconnect loop starts.
C21_AttachedNeverReconnects ==
  [][(AttachedOnly /\ ~WsConnect /\ ~WsAttach) =>
        /\ \A s \in SockIds : readyState[s] = "UNUSED" => readyState'[s] = "UNUSED"
        /\ ~reconnecting' /\ ~ownsSocket' /\ sleepers' = 0]_vars

\* an attached socket has emitted 'close' and is still the client's socket
C21_Witness ==
  AttachedOnly /\ ws # NoSock /\ readyState[ws] = "CLOSED"

\* ---- claim C22: action style of the ACK --------------------------------------
\* C22 as stated: a batch received in either action style is processed, and
\* its ACK uses the style of the batch (dotted stays dotted, camel stays camel).
C22_AckMirrorsStyle ==
  \A b \in UsedBatches :
     /\ batches[b].st # "ignored"
     /\ batches[b].acks > 0 => batches[b].ack.style = batches[b].style

\* ---- claims C23..C25: HttpClient inbound requests ----------------------------
\* a step that writes a 401 reply dispatches no batch and sends no Pong
RefusalDoesNothing ==
  [][(httpResp' # httpResp /\ httpResp'.code = 401) =>
        batches' = batches /\ lastPong' = lastPong]_vars

HookReqs == {req \in HttpReqs : req.path = "hook" /\ ~Unauthorized(req)}

\* C24 as stated: an authorised POST to the webhook path is answered 413 when
\* the body exceeds maxMessageBytes - 256, else 400 when the body is not JSON,
\* else 422 when the envelope's action is not the batch action; a batch is
\* dispatched, and answered 200 with an ACK when it was processed in time, and
\* with another status and no ACK when a handler failed or the deadline expired.
C24_WebhookReplies ==
  (kind = "http" /\ ~samePaths) =>
     /\ httpResp # NoResp =>
           \A req \in HookReqs :
              HttpSyncReply(req) = httpResp =>
                 IF req.len > maxBytes - TRANSPORT_OVERHEAD_WIRE THEN httpResp.code = 413
                 ELSE IF req.len = 0 THEN httpResp.code \in {400, 422}
                 ELSE IF req.body = "invalid_json" THEN httpResp.code = 400
                 ELSE IF req.body \in {"no_action", "other_action"} THEN httpResp.code = 422
                 ELSE req.body = "no_events" /\ httpResp.code \in {400, 422}
     /\ \A b \in UsedBatches :
           /\ batches[b].len \in 1..(maxBytes - TRANSPORT_OVERHEAD_WIRE)
           /\ batches[b].st = "resolved" =>
                 /\ batches[b].reply = 200 /\ batches[b].acks = 1
                 /\ batches[b].ack.ok /\ ~batches[b].threw /\ ~batches[b].expired
           /\ batches[b].st \in {"failed", "timedout"} =>
                 batches[b].reply \notin {0, 200} /\ batches[b].acks = 0

\* C25 as stated: the webhook path and the ping path of an HttpClient differ,
\* so an authorised POST to the webhook path that carries a valid batch is
\* dispatched as a batch and never answered with a Pong.
C25_PathsDiffer ==
  kind = "http" =>
     /\ ~samePaths
     /\ \A req \in HookReqs :
           (req.body = "batch" /\ req.len \in 1..(maxBytes - TRANSPORT_OVERHEAD_WIRE)) =>
              HttpSyncReply(req) = NoResp

\* ---- C26 ---------------------------------------------------------------------
\* invocations of the handler of type t the client has begun for batch b
Begun(B, t) == Len(B.tasks[t].started)

\* C26: batches pipelined on a WebSocket or IPC connection are processed in
\* arrival order: for every eventType, a handler invocation for an event of a
\* later batch begins only when the handler has been invoked for every event of
\* that type of every earlier batch.
C26_ArrivalOrder ==
  [][\A b2 \in BatchIds, t \in Types :
        Begun(batches'[b2], t) > Begun(batches[b2], t) =>
          \A b1 \in 1..(b2 - 1) : Begun(batches[b1], t) = Len(batches[b1].tasks[t].idxs)]_vars

\* ---- C27 ---------------------------------------------------------------------
\* C27: on the IPC clients a query() call is never refused because other queries
\* are pending, and a pending query leaves the pending state only through the
\* QueryResponse that carries its own correlationId or through its own deadline,
\* every other query being left as it was; a QueryResponse whose correlationId
\* is missing or has no entry changes the outcome of no query.
C27_SettledByOwnResponseOnly ==
  [][kind = "ipc" =>
       /\ \A q \in QueryIds :
            (queries[q].res.st = "unused" /\ queries'[q].res.st # "unused") =>
               queries'[q].res \in {Pending, Rejected("send_error")}
       /\ \A q \in QueryIds :
            (IsPending(q) /\ queries'[q].res # queries[q].res) =>
               /\ \/ /\ queries'[q].answers = queries[q].answers + 1
                     /\ \E pl \in Payloads : queries'[q].res = Decide(pl)
                  \/ /\ queries'[q].answers = queries[q].answers
                     /\ queries[q].dlTimer
                     /\ queries'[q].res = Rejected("query_timeout")
               /\ \A p \in QueryIds \ {q} : queries'[p] = queries[p]
       /\ \A q \in QueryIds :
            (queries'[q].answers # queries[q].answers /\ ~queries[q].entry) =>
               \A p \in QueryIds : queries'[p].res = queries[p].res]_vars

\* three queries were pending at once, the second one has been answered first
C27_Witness ==
  /\ kind = "ipc"
  /\ IsPending(1) /\ queries[1].sendP = "resolved" /\ queries[1].answers = 0
  /\ queries[2].res.st = "resolved" /\ queries[2].answers = 1
  /\ IsPending(3) /\ queries[3].sendP = "resolved"

\* ---- C28 ---------------------------------------------------------------------
\* C28: on the IPC clients every QueryRequest handed to the channel carries a
\* requestId and a correlationId, and the ACK of a batch that carried a
\* correlationId carries that batch's correlationId, also while other batches
\* are being processed.
C28_IdsCarried ==
  kind = "ipc" =>
    /\ \A q \in QueryIds :
         queries[q].sendP # "none" =>
           /\ queries[q].frame.requestId
           /\ queries[q].frame.correlationId # NoQuery
    /\ \A b \in UsedBatches :
         (batches[b].acks > 0 /\ batches[b].corr # NoCorr) =>
           /\ batches[b].ack.corr = batches[b].corr
           /\ ~batches[b].ack.fresh

\* a query was sent; the second of two batches being processed together has
\* been acknowledged while the first is still with its handler
C28_Witness ==
  /\ kind = "ipc"
  /\ \E q \in QueryIds : queries[q].sendP = "resolved"
  /\ batches[1].st = "processing" /\ batches[1].corr = 1
  /\ batches[2].st = "resolved" /\ batches[2].corr = 2 /\ batches[2].acks = 1
  /\ batches[2].ack.corr = 2
  /\ \E t \in Types : batches[2].tasks[t].ended > 0

\* ---- C29 ---------------------------------------------------------------------
\* batch b arrives in this step and none of its events has a subscriber
ArrivesUnsubscribed(b) ==
  /\ batches[b].st = "unused"
  /\ batches'[b].st \notin {"unused", "ignored"}
  /\ \A i \in 1..Len(batches'[b].events) : subs[batches'[b].events[i]] = NoHandler

\* no handler has been invoked for batch b
NoneInvoked(B) == \A t \in Types : B.tasks[t].started = <<>>

\* the ACK of B is the one the protocol asks for
FullAck(B) ==
  /\ B.acks = 1
  /\ B.ack.ok
  /\ B.ack.okIndices = [i \in 1..Len(B.events) |-> i - 1]

\* a batch in processing always has a handler invocation to wait for: events
\* without a subscriber keep no batch from completing
NothingElseAwaited ==
  \A b \in UsedBatches :
     batches[b].st = "processing" =>
        \E t \in Types : batches[b].tasks[t].state \in {"scheduled", "running"}

C30_ExpiryCancelsOutstandingWork ==
  [][\A b \in BatchIds : \A t \in Types :
        batches[b].expired => batches'[b].tasks[t].started = batches[b].tasks[t].started]_vars

\* ---- C31 ---------------------------------------------------------------------
\* C31: when close() has returned, no channel delivers inbound messages to the
\* client any more and getSubscriptionCount is 0 for every event type, so that
\* no later envelope reaches a handler.
C31_CloseDetachesAndClears ==
  [][(WsClose \/ IpcClose) =>
        /\ \A t \in Types : SubscriptionCount(subs', t) = 0
        /\ \A s \in SockIds \cup {NoSock} : ~Receives(s)']_vars

\* ---- C32 ---------------------------------------------------------------------
\* a failed attempt of the reconnect loop is counted in this step
LoopAttemptFailed == connAttempts' = connAttempts + 1

\* an openOnce of the client succeeds in this step
ManagedOpen ==
  \E s \in SockIds :
     readyState[s] = "CONNECTING" /\ readyState'[s] = "OPEN" /\ openWait[s] # "none"

\* C32: the delay the reconnect loop takes after its k-th consecutive failed
\* attempt is min(3000, 200 * 2^(k-1)) ms, never above 3000 ms and never below
\* the previous delay while attempts keep failing, and the attempt counter is 0
\* after every successful open.
C32_BackoffSchedule ==
  [][/\ LoopAttemptFailed =>
          /\ delayMs' = (IF 200 * 2 ^ (connAttempts' - 1) > 3000 THEN 3000
                         ELSE 200 * 2 ^ (connAttempts' - 1))
          /\ delayMs' <= 3000
          /\ connAttempts > 0 => delayMs' >= delayMs
     /\ ManagedOpen => connAttempts' = 0]_vars

\* ---- C33 ---------------------------------------------------------------------
\* a tick of the heartbeat loop is started in this step
Ticked == hb'.ticks = hb.ticks + 1

\* C33: the heartbeat loop starts from a base interval of at most
\* heartbeatTimeout / 2; after a tick that saw no fresh Pong the delay is the
\* previous one times the multiplier, capped at heartbeatTimeout; after a tick
\* that saw a fresh Pong it is the base interval; it never exceeds
\* heartbeatTimeout; no tick is started after destroy().
C33_HeartbeatInterval ==
  /\ [](hb.state # "off" =>
          /\ 2 * hb.interval <= hb.timeout
          /\ hb.delay <= hb.timeout)
  /\ [][/\ (Ticked /\ hb.state # "off" /\ ~hb'.didReset) =>
             hb'.delay = Min2(hb.timeout, hb.delay * 2)
        /\ (Ticked /\ hb'.didReset) => hb'.delay = hb'.interval
        /\ hb.destroyed => ~Ticked]_vars

\* ---- C34 ---------------------------------------------------------------------
\* type t occurs among the events of batch B
Occurs(B, t) == \E i \in 1..Len(B.events) : B.events[i] = t

\* C34: the handlers of a batch are those subscribed when the batch arrived: a
\* type without a subscriber at that moment gets no invocation for the batch
\* even if a handler is subscribed later, and a type with a subscriber has every
\* one of its events delivered to that subscriber even if it is unsubscribed or
\* replaced while the batch is running.
C34_SnapshotDispatch ==
  /\ [](\A b \in UsedBatches : \A t \in Types :
          LET T == batches[b].tasks[t] IN
          /\ Len(T.invoked) = Len(T.started)
          /\ \A j \in 1..Len(T.invoked) : T.invoked[j] = T.handler
          /\ T.handler = NoHandler => T.started = <<>>
          /\ T.state = "done" => T.started = TypeIdx(b, t))
  /\ [][\A b \in BatchIds : \A t \in Types :
          /\ (batches[b].st = "unused" /\ batches'[b].st \notin {"unused", "ignored"}) =>
                batches'[b].tasks[t].handler =
                   (IF Occurs(batches'[b], t) THEN subs[t] ELSE NoHandler)
          /\ batches[b].st # "unused" =>
                batches'[b].tasks[t].handler = batches[b].tasks[t].handler]_vars

\* a batch [.., A.., B..] is running: the handler of one type was replaced after
\* two of its events were delivered to the old one, and the other type, which
\* had no subscriber when the batch arrived, has one now and no invocation
C34_Witness ==
  \E b \in UsedBatches : \E t, u \in Types :
     /\ t # u
     /\ batches[b].tasks[t].handler = "h1" /\ subs[t] = "h2"
     /\ batches[b].tasks[t].invoked = <<"h1", "h1">>
     /\ Occurs(batches[b], u) /\ subs[u] # NoHandler
     /\ batches[b].tasks[u].state = "none"

\* ---- C35 ---------------------------------------------------------------------
\* the QueryRequest frame of query q is outstanding: handed to the socket and
\* the query not yet settled
Outstanding(q) == IsPending(q) /\ queries[q].sendP \in {"pending", "resolved"}

\* C35: on WsClient the single-flight slot is taken from the query that holds
\* it only by a step of that query (its response, its deadline, its failed
\* send), never by the completion step of another query, and at no time are the
\* QueryRequest frames of two queries outstanding.
C35_SlotHeldByLatestQuery ==
  /\ [](kind = "ws" => Cardinality({q \in QueryIds : Outstanding(q)}) <= 1)
  /\ [][kind = "ws" =>
          \A q \in QueryIds :
             (queryInFlight = q /\ queryInFlight' # q) => queries'[q] # queries[q]]_vars

\* ---- C36 ---------------------------------------------------------------------
\* C36, in finite-run form: a query of the Electron renderer client that is
\* still pending is still in its wait loop, which ends at the deadline at the
\* latest; a query whose response has arrived with ok = true has a resolved
\* promise to return.
C36_RendererQuerySettles ==
  kind = "er" =>
    \A q \in QueryIds :
       /\ IsPending(q) => queries[q].loop = "polling"
       /\ queries[q].loop = "ended" => ~IsPending(q)

\* ---- C37 ---------------------------------------------------------------------
\* C37: on WsClient the ACK of a batch is emitted only when every batch that
\* arrived before it has been acknowledged: never while an earlier batch is
\* still being processed and never after an earlier batch ended without ACK.
C37_AcksInArrivalOrder ==
  [][kind = "ws" =>
       \A b2 \in BatchIds :
          batches'[b2].acks > batches[b2].acks =>
             \A b1 \in 1..(b2 - 1) : batches[b1].acks > 0]_vars

\* ---- C38 ---------------------------------------------------------------------
\* C38: the function returned by subscribe(t, h1) removes only h1: after
\* subscribe(t, h1), unsubscribe1(), subscribe(t, h2), another unsubscribe1()
\* leaves h2 subscribed and the count of t at 1; in every step, an unsubscribe
\* function called while another handler holds its type changes nothing.
C38_UnsubscribeRemovesOwnHandlerOnly ==
  /\ [](\A t \in Types : \A h1, h2 \in Handlers :
          (subs[t] = NoHandler /\ h1 # h2) =>
             LET S1 == Sub(subs, t, h1)
                 S2 == Unsub(S1, t, h1)
                 S3 == Sub(S2, t, h2)
                 S4 == Unsub(S3, t, h1)
             IN /\ S3[t] = h2
                /\ S4[t] = h2
                /\ SubscriptionCount(S4, t) = 1
                /\ \A u \in Types \ {t} : S4[u] = subs[u])
  /\ [][\A t \in Types : \A h \in Handlers :
          (Unsubscribe(t, h) /\ subs[t] \notin {h, NoHandler}) =>
             subs'[t] = subs[t] /\ SubscriptionCount(subs', t) = 1]_vars

\* h1 was subscribed to a type and received an event of a batch; the type is
\* now held by h2 while the other type has no subscriber
C38_Witness ==
  \E b \in UsedBatches : \E t \in Types :
     /\ batches[b].tasks[t].handler = "h1"
     /\ batches[b].tasks[t].ended > 0
     /\ subs[t] = "h2"
     /\ \A u \in Types \ {t} : subs[u] = NoHandler

\* ---- C39 ---------------------------------------------------------------------
\* reconnect loops that are alive: awaiting their socket or their delay, with
\* the flag that keeps their while loop going set
LiveLoops ==
  IF reconnecting
  THEN sleepers + Cardinality({s \in SockIds : openWait[s] = "loop"})
  ELSE 0

CurrentOpen == ws # NoSock /\ readyState[ws] = "OPEN"

SocketCreated == \E s \in SockIds : readyState[s] = "UNUSED" /\ readyState'[s] = "CONNECTING"

\* no step creates a socket while the current socket is open and stays open
NoSocketWhileCurrentOpen ==
  (kind = "ws" /\ CurrentOpen /\ readyState'[ws] = "OPEN") => ~SocketCreated

\* C39: in managed mode at most one reconnect loop is alive at any time, and
\* no step creates a socket while the current socket is open and stays open
C39_OneReconnectLoop ==
  /\ [](kind = "ws" => LiveLoops <= 1)
  /\ [][NoSocketWhileCurrentOpen]_vars

\* ---- C40 ---------------------------------------------------------------------
\* C40: the ACK of a batch is sent on the socket the batch arrived on, also
\* when the socket was replaced or closed while the handlers were running
C40_AckOnArrivalSocket ==
  kind = "ws" =>
    \A b \in UsedBatches : batches[b].acks > 0 => batches[b].ack.sock = batches[b].sock
====
